---- MODULE Spec2Model ----
(***************************************************************************)
(* osu-cli (osucli.py): the judgment core of the terminal osu!mania clone. *)
(* The model follows run_game's frame loop: each frame reads the clock,    *)
(* drains the key codes, times out stale lanes, sweeps missed notes,       *)
(* draws, and evaluates the all-judged predicate.                          *)
(***************************************************************************)
EXTENDS Integers, Sequences, FiniteSets, TLC

VARIABLES notes, stats, held, key_hold_times, current_time, running, pc

vars == <<notes, stats, held, key_hold_times, current_time, running, pc>>

(* ------------------------------ bounds --------------------------------- *)
\* Number of lanes (the program's `keys`, read from CircleSize).
Keys == 2
\* Longest chart drawn by Init.
MaxNotes == 2
\* Horizon of the clock: past every deadline of every chart of Init.
MaxTime == 450

(* ------------------------- program constants --------------------------- *)
HIT_WINDOW_PERFECT == 16
HIT_WINDOW_GREAT == 40
HIT_WINDOW_GOOD == 73
HIT_WINDOW_BAD == 103
HIT_WINDOW_MISS == 127
HOLD_RELEASE_WINDOW == 100
SCORE_PERFECT == 320
SCORE_GREAT == 300
SCORE_GOOD == 200
SCORE_BAD == 100
SCORE_MISS == 0
release_timeout == 100
\* The frame loop sleeps up to 1/60 s, so two frames are at least 16 ms apart.
FrameMs == 16

\* Optional[int] = None
None == -1

\* The longest sequence of judgments given to update_stats on its own.
MaxJudgments == 5

\* The largest |delta| given to calculate_judgment on its own.
MaxDelta == 130

Lanes == 1..Keys

Abs(x) == IF x < 0 THEN -x ELSE x

Max(a, b) == IF a >= b THEN a ELSE b

\* Python truthiness of note.end_time: None and 0 are both false.
Truthy(end_time) == end_time # None /\ end_time # 0

(* ------------------------------ the chart ------------------------------ *)
\* @dataclass Note
Note(t, lane, kind, end_time) ==
    [time |-> t, lane |-> lane, kind |-> kind, end_time |-> end_time,
     judged |-> FALSE, hit |-> FALSE, hold_active |-> FALSE, hold_judged |-> FALSE]

\* The notes Init builds charts from: two normal notes 4 ms apart, a hold of
\* 170 ms and a hold that starts and ends at time 0, in every lane.
NormalTimes == {130, 134}

HoldSpans == {<<0, 0>>, <<130, 300>>}

NoteHeads ==
    {Note(t, l, "normal", None) : t \in NormalTimes, l \in Lanes}
    \cup {Note(h[1], l, "hold", h[2]) : h \in HoldSpans, l \in Lanes}

\* notes.sort(key=lambda n: (n.time, n.lane))
SortedByTimeLane(s) ==
    \A i \in 1..(Len(s) - 1) :
        \/ s[i].time < s[i + 1].time
        \/ s[i].time = s[i + 1].time /\ s[i].lane <= s[i + 1].lane

\* The note lists parse_hitobjects can return (run_game refuses an empty one).
Charts ==
    {s \in UNION {[1..n -> NoteHeads] : n \in 1..MaxNotes} : SortedByTimeLane(s)}

\* @dataclass Stats
Stats0 ==
    [score |-> 0, combo |-> 0, max_combo |-> 0, perfect |-> 0, great |-> 0,
     good |-> 0, bad |-> 0, miss |-> 0, total_notes |-> 0]

(* --------------------------- judgment system --------------------------- *)
\* calculate_judgment without abs().
calculate_judgment_signed(delta) ==
    LET d == delta IN
    IF d <= HIT_WINDOW_PERFECT THEN "PERFECT"
    ELSE IF d <= HIT_WINDOW_GREAT THEN "GREAT"
    ELSE IF d <= HIT_WINDOW_GOOD THEN "GOOD"
    ELSE IF d <= HIT_WINDOW_BAD THEN "BAD"
    ELSE "MISS"

calculate_judgment(delta) ==
    LET d == Abs(delta) IN
    IF d <= HIT_WINDOW_PERFECT THEN "PERFECT"
    ELSE IF d <= HIT_WINDOW_GREAT THEN "GREAT"
    ELSE IF d <= HIT_WINDOW_GOOD THEN "GOOD"
    ELSE IF d <= HIT_WINDOW_BAD THEN "BAD"
    ELSE "MISS"

\* The score table with the points of a Great for a Good.
get_score_for_judgment_good_as_great(judgment) ==
    CASE judgment = "PERFECT" -> SCORE_PERFECT
      [] judgment = "GREAT" -> SCORE_GREAT
      [] judgment = "GOOD" -> SCORE_GREAT
      [] judgment = "BAD" -> SCORE_BAD
      [] judgment = "MISS" -> SCORE_MISS

get_score_for_judgment(judgment) ==
    CASE judgment = "PERFECT" -> SCORE_PERFECT
      [] judgment = "GREAT" -> SCORE_GREAT
      [] judgment = "GOOD" -> SCORE_GOOD
      [] judgment = "BAD" -> SCORE_BAD
      [] judgment = "MISS" -> SCORE_MISS

\* Stats.accuracy, a float in the source, as the exact fraction
\* <<numerator, denominator>> of the percentage.
accuracy(s) ==
    LET total_value == s.perfect * 320 + s.great * 300
                       + s.good * 200 + s.bad * 100 + s.miss * 0
        max_value == s.total_notes * 320
    IN  IF s.total_notes = 0 THEN <<100, 1>>
        ELSE IF max_value > 0 THEN <<total_value * 100, max_value>>
        ELSE <<100, 1>>

\* update_stats that does not count a Miss in total_notes.
update_stats_miss_untotalled(s, judgment) ==
    LET s1 == [s EXCEPT !.total_notes = IF judgment = "MISS" THEN @ ELSE @ + 1,
                        !.score = @ + get_score_for_judgment(judgment)]
        s2 == IF judgment = "PERFECT" THEN [s1 EXCEPT !.perfect = @ + 1, !.combo = @ + 1]
              ELSE IF judgment = "GREAT" THEN [s1 EXCEPT !.great = @ + 1, !.combo = @ + 1]
              ELSE IF judgment = "GOOD" THEN [s1 EXCEPT !.good = @ + 1, !.combo = @ + 1]
              ELSE IF judgment = "BAD" THEN [s1 EXCEPT !.bad = @ + 1, !.combo = @ + 1]
              ELSE [s1 EXCEPT !.miss = @ + 1, !.combo = 0]
    IN  [s2 EXCEPT !.max_combo = Max(@, s2.combo)]

\* update_stats without the reset of the combo on a Miss.
update_stats_keep_combo(s, judgment) ==
    LET s1 == [s EXCEPT !.total_notes = @ + 1,
                        !.score = @ + get_score_for_judgment(judgment)]
        s2 == IF judgment = "PERFECT" THEN [s1 EXCEPT !.perfect = @ + 1, !.combo = @ + 1]
              ELSE IF judgment = "GREAT" THEN [s1 EXCEPT !.great = @ + 1, !.combo = @ + 1]
              ELSE IF judgment = "GOOD" THEN [s1 EXCEPT !.good = @ + 1, !.combo = @ + 1]
              ELSE IF judgment = "BAD" THEN [s1 EXCEPT !.bad = @ + 1, !.combo = @ + 1]
              ELSE [s1 EXCEPT !.miss = @ + 1]
    IN  [s2 EXCEPT !.max_combo = Max(@, s2.combo)]

update_stats(s, judgment) ==
    LET s1 == [s EXCEPT !.total_notes = @ + 1,
                        !.score = @ + get_score_for_judgment(judgment)]
        s2 == IF judgment = "PERFECT" THEN [s1 EXCEPT !.perfect = @ + 1, !.combo = @ + 1]
              ELSE IF judgment = "GREAT" THEN [s1 EXCEPT !.great = @ + 1, !.combo = @ + 1]
              ELSE IF judgment = "GOOD" THEN [s1 EXCEPT !.good = @ + 1, !.combo = @ + 1]
              ELSE IF judgment = "BAD" THEN [s1 EXCEPT !.bad = @ + 1, !.combo = @ + 1]
              ELSE [s1 EXCEPT !.miss = @ + 1, !.combo = 0]
    IN  [s2 EXCEPT !.max_combo = Max(@, s2.combo)]

(* ------------------------------ game logic ----------------------------- *)
\* The notes and the stats, as the handlers thread them.  (The effects list
\* they also append to is read by draw_hit_effects alone and is left out.)
World(n, s) == [notes |-> n, stats |-> s]

\* A judgment of notes[i], reported: the note's new fields and update_stats.
Report(w, ns, judgment) == World(ns, update_stats(w.stats, judgment))

\* handle_note_hit without the test of the note's kind.
handle_note_hit_any_kind(w, i, t) ==
    LET note == w.notes[i]
        judgment == calculate_judgment(t - note.time)
        ns == [w.notes EXCEPT ![i] =
                 [@ EXCEPT !.judged = TRUE,
                           !.hit = (judgment # "MISS"),
                           !.hold_active = IF judgment # "MISS" THEN TRUE ELSE @]]
    IN  IF note.judged THEN w ELSE Report(w, ns, judgment)

handle_note_hit(w, i, t) ==
    LET note == w.notes[i]
        judgment == calculate_judgment(t - note.time)
        ns == [w.notes EXCEPT ![i] =
                 [@ EXCEPT !.judged = TRUE,
                           !.hit = (judgment # "MISS"),
                           !.hold_active =
                               IF note.kind = "hold" /\ judgment # "MISS" THEN TRUE ELSE @]]
    IN  IF note.judged THEN w ELSE Report(w, ns, judgment)

handle_hold_release(w, i, t) ==
    LET note == w.notes[i]
        delta == t - note.end_time
        ns == [w.notes EXCEPT ![i] = [@ EXCEPT !.hold_judged = TRUE, !.hold_active = FALSE]]
    IN  IF ~note.hold_active \/ note.hold_judged THEN w
        ELSE IF Truthy(note.end_time)
             THEN IF Abs(delta) <= HOLD_RELEASE_WINDOW
                  THEN Report(w, ns, calculate_judgment(delta))
                  ELSE Report(w, ns, "MISS")
             ELSE World(ns, w.stats)

\* check_missed_notes' iteration without the test of note.judged.
check_missed_note_rejudge(w, i, t) ==
    LET note == w.notes[i]
        w1 == IF t - note.time > HIT_WINDOW_MISS
              THEN Report(w, [w.notes EXCEPT ![i] = [@ EXCEPT !.judged = TRUE]], "MISS")
              ELSE w
        n1 == w1.notes[i]
    IN  IF n1.kind = "hold" /\ n1.hold_active /\ ~n1.hold_judged
           /\ Truthy(n1.end_time) /\ t - n1.end_time > HOLD_RELEASE_WINDOW
        THEN handle_hold_release(w1, i, t)
        ELSE w1

\* check_missed_notes' iteration sweeping a note already at the window's edge.
check_missed_note_at_edge(w, i, t) ==
    LET note == w.notes[i]
        w1 == IF ~note.judged /\ t - note.time >= HIT_WINDOW_MISS
              THEN Report(w, [w.notes EXCEPT ![i] = [@ EXCEPT !.judged = TRUE]], "MISS")
              ELSE w
        n1 == w1.notes[i]
    IN  IF n1.kind = "hold" /\ n1.hold_active /\ ~n1.hold_judged
           /\ Truthy(n1.end_time) /\ t - n1.end_time > HOLD_RELEASE_WINDOW
        THEN handle_hold_release(w1, i, t)
        ELSE w1

\* check_missed_notes' iteration reporting the Miss without marking the note.
check_missed_note_unmarked(w, i, t) ==
    LET note == w.notes[i]
        w1 == IF ~note.judged /\ t - note.time > HIT_WINDOW_MISS
              THEN Report(w, w.notes, "MISS")
              ELSE w
        n1 == w1.notes[i]
    IN  IF n1.kind = "hold" /\ n1.hold_active /\ ~n1.hold_judged
           /\ Truthy(n1.end_time) /\ t - n1.end_time > HOLD_RELEASE_WINDOW
        THEN handle_hold_release(w1, i, t)
        ELSE w1

\* One iteration of check_missed_notes' loop, for notes[i].
check_missed_note(w, i, t) ==
    LET note == w.notes[i]
        w1 == IF ~note.judged /\ t - note.time > HIT_WINDOW_MISS
              THEN Report(w, [w.notes EXCEPT ![i] = [@ EXCEPT !.judged = TRUE]], "MISS")
              ELSE w
        n1 == w1.notes[i]
    IN  IF n1.kind = "hold" /\ n1.hold_active /\ ~n1.hold_judged
           /\ Truthy(n1.end_time) /\ t - n1.end_time > HOLD_RELEASE_WINDOW
        THEN handle_hold_release(w1, i, t)
        ELSE w1

RECURSIVE check_missed_from(_, _, _)
check_missed_from(w, i, t) ==
    IF i > Len(w.notes) THEN w
    ELSE check_missed_from(check_missed_note(w, i, t), i + 1, t)

check_missed_notes(w, t) == check_missed_from(w, 1, t)

(* ------------------------------- run_game ------------------------------ *)
\* The search keeping the last of two equally close notes.
RECURSIVE best_note_from_last_tie(_, _, _, _, _, _)
best_note_from_last_tie(ns, lane, t, i, best_note, best_delta) ==
    IF i > Len(ns) THEN best_note
    ELSE LET note == ns[i]
             delta == Abs(t - note.time)
         IN  IF note.lane = lane /\ ~note.judged
                /\ delta <= HIT_WINDOW_MISS
                /\ (best_note = 0 \/ delta <= best_delta)
             THEN best_note_from_last_tie(ns, lane, t, i + 1, i, delta)
             ELSE best_note_from_last_tie(ns, lane, t, i + 1, best_note, best_delta)

\* The search with HIT_WINDOW_BAD for the outer window.
RECURSIVE best_note_from_bad_window(_, _, _, _, _, _)
best_note_from_bad_window(ns, lane, t, i, best_note, best_delta) ==
    IF i > Len(ns) THEN best_note
    ELSE LET note == ns[i]
             delta == Abs(t - note.time)
         IN  IF note.lane = lane /\ ~note.judged
                /\ delta <= HIT_WINDOW_BAD
                /\ (best_note = 0 \/ delta < best_delta)
             THEN best_note_from_bad_window(ns, lane, t, i + 1, i, delta)
             ELSE best_note_from_bad_window(ns, lane, t, i + 1, best_note, best_delta)

\* The search without the outer window.
RECURSIVE best_note_from_no_window(_, _, _, _, _, _)
best_note_from_no_window(ns, lane, t, i, best_note, best_delta) ==
    IF i > Len(ns) THEN best_note
    ELSE LET note == ns[i]
             delta == Abs(t - note.time)
         IN  IF note.lane = lane /\ ~note.judged
                /\ (best_note = 0 \/ delta < best_delta)
             THEN best_note_from_no_window(ns, lane, t, i + 1, i, delta)
             ELSE best_note_from_no_window(ns, lane, t, i + 1, best_note, best_delta)

\* The search of the chart for the note a new press hits: the first note, in
\* chart order, of the least |current_time - note.time| within HIT_WINDOW_MISS.
\* best_note = 0 stands for None, and then for best_delta = inf.
RECURSIVE best_note_from(_, _, _, _, _, _)
best_note_from(ns, lane, t, i, best_note, best_delta) ==
    IF i > Len(ns) THEN best_note
    ELSE LET note == ns[i]
             delta == Abs(t - note.time)
         IN  IF note.lane = lane /\ ~note.judged
                /\ delta <= HIT_WINDOW_MISS
                /\ (best_note = 0 \/ delta < best_delta)
             THEN best_note_from(ns, lane, t, i + 1, i, delta)
             ELSE best_note_from(ns, lane, t, i + 1, best_note, best_delta)

best_note_for(ns, lane, t) == best_note_from(ns, lane, t, 1, 0, 0)

\* key_hold_times is a dict: an insertion-ordered list of (lane, time) entries.
HasEntry(kht, lane) == \E k \in 1..Len(kht) : kht[k].lane = lane

EntryTime(kht, lane) == kht[CHOOSE k \in 1..Len(kht) : kht[k].lane = lane].t

SetEntry(kht, lane, t) ==
    IF HasEntry(kht, lane)
    THEN [k \in 1..Len(kht) |-> IF kht[k].lane = lane THEN [lane |-> lane, t |-> t] ELSE kht[k]]
    ELSE Append(kht, [lane |-> lane, t |-> t])

\* The release of a lane that releases the active holds of every lane.
RECURSIVE release_lane_from_all_lanes(_, _, _, _)
release_lane_from_all_lanes(w, lane, i, t) ==
    IF i > Len(w.notes) THEN w
    ELSE LET note == w.notes[i]
             w1 == IF note.kind = "hold"
                      /\ note.hold_active /\ ~note.hold_judged
                   THEN handle_hold_release(w, i, t)
                   ELSE w
         IN  release_lane_from_all_lanes(w1, lane, i + 1, t)

\* The release of a lane that releases no hold.
release_lane_from_none(w, lane, i, t) == w

\* The release of every active hold of a lane, in chart order.
RECURSIVE release_lane_from(_, _, _, _)
release_lane_from(w, lane, i, t) ==
    IF i > Len(w.notes) THEN w
    ELSE LET note == w.notes[i]
             w1 == IF note.lane = lane /\ note.kind = "hold"
                      /\ note.hold_active /\ ~note.hold_judged
                   THEN handle_hold_release(w, i, t)
                   ELSE w
         IN  release_lane_from(w1, lane, i + 1, t)

\* The auto-release loop without `del key_hold_times[lane]`.
RECURSIVE auto_release_from_entry_kept(_, _, _, _, _, _)
auto_release_from_entry_kept(w, h, kht, k, kept, t) ==
    IF k > Len(kht) THEN [world |-> w, held |-> h, key_hold_times |-> kept]
    ELSE LET lane == kht[k].lane IN
         IF t - kht[k].t > release_timeout
         THEN auto_release_from_entry_kept(
                  IF h[lane] THEN release_lane_from(w, lane, 1, t) ELSE w,
                  [h EXCEPT ![lane] = FALSE], kht, k + 1, Append(kept, kht[k]), t)
         ELSE auto_release_from_entry_kept(w, h, kht, k + 1, Append(kept, kht[k]), t)

\* The auto-release loop releasing every lane with an entry, whatever its age.
RECURSIVE auto_release_from_any_age(_, _, _, _, _, _)
auto_release_from_any_age(w, h, kht, k, kept, t) ==
    IF k > Len(kht) THEN [world |-> w, held |-> h, key_hold_times |-> kept]
    ELSE LET lane == kht[k].lane IN
         auto_release_from_any_age(
             IF h[lane] THEN release_lane_from(w, lane, 1, t) ELSE w,
             [h EXCEPT ![lane] = FALSE], kht, k + 1, kept, t)

\* The auto-release loop releasing a lane already at the timeout.
RECURSIVE auto_release_from_at_timeout(_, _, _, _, _, _)
auto_release_from_at_timeout(w, h, kht, k, kept, t) ==
    IF k > Len(kht) THEN [world |-> w, held |-> h, key_hold_times |-> kept]
    ELSE LET lane == kht[k].lane IN
         IF t - kht[k].t >= release_timeout
         THEN auto_release_from_at_timeout(
                  IF h[lane] THEN release_lane_from(w, lane, 1, t) ELSE w,
                  [h EXCEPT ![lane] = FALSE], kht, k + 1, kept, t)
         ELSE auto_release_from_at_timeout(w, h, kht, k + 1, Append(kept, kht[k]), t)

\* The auto-release loop over list(key_hold_times.keys()), from entry k on:
\* the world, the held flags and the surviving entries.
RECURSIVE auto_release_from(_, _, _, _, _, _)
auto_release_from(w, h, kht, k, kept, t) ==
    IF k > Len(kht) THEN [world |-> w, held |-> h, key_hold_times |-> kept]
    ELSE LET lane == kht[k].lane IN
         IF t - kht[k].t > release_timeout
         THEN auto_release_from(IF h[lane] THEN release_lane_from(w, lane, 1, t) ELSE w,
                                [h EXCEPT ![lane] = FALSE], kht, k + 1, kept, t)
         ELSE auto_release_from(w, h, kht, k + 1, Append(kept, kht[k]), t)

auto_release(w, h, kht, t) == auto_release_from(w, h, kht, 1, <<>>, t)

\* all_judged without the hold_judged of the holds.
all_judged_of_heads(ns) ==
    \A i \in DOMAIN ns : ns[i].judged

all_judged_of(ns) ==
    \A i \in 1..Len(ns) : ns[i].judged /\ (ns[i].kind # "hold" \/ ns[i].hold_judged)

Now == World(notes, stats)

\* Offsets from a note's time and from a hold's end_time at which frames fall:
\* both sides of the windows' edges, and points inside the windows.
HeadOffsets == {-104, -103, 0, 2, 50, 104, 127, 128}

TailOffsets == {-101, -100, 0, 100, 101}

FrameTimes(ns) ==
    ({ns[i].time + o : i \in 1..Len(ns), o \in HeadOffsets}
     \cup {ns[i].end_time + o : i \in {j \in 1..Len(ns) : ns[j].kind = "hold"},
                                o \in TailOffsets}
     \cup {MaxTime}) \cap 0..MaxTime

Init ==
    /\ notes \in Charts
    /\ stats = Stats0
    /\ held = [l \in Lanes |-> FALSE]
    /\ key_hold_times = <<>>
    /\ current_time = 0
    /\ running = TRUE
    /\ pc = "input"

\* The key handler without the test of held[lane]: every key code is a press.
KeyLane_always_press(lane) ==
    /\ pc = "input"
    /\ LET best_note == best_note_for(notes, lane, current_time)
           w == IF best_note # 0 THEN handle_note_hit(Now, best_note, current_time)
                ELSE Now
       IN  /\ held' = [held EXCEPT ![lane] = TRUE]
           /\ key_hold_times' = SetEntry(key_hold_times, lane, current_time)
           /\ notes' = w.notes
           /\ stats' = w.stats
    /\ UNCHANGED <<current_time, running, pc>>

\* stdscr.getch() returns a key of keymap.
KeyLane(lane) ==
    /\ pc = "input"
    /\ IF ~held[lane]
       THEN LET best_note == best_note_for(notes, lane, current_time)
                w == IF best_note # 0 THEN handle_note_hit(Now, best_note, current_time)
                     ELSE Now
            IN  /\ held' = [held EXCEPT ![lane] = TRUE]
                /\ key_hold_times' = SetEntry(key_hold_times, lane, current_time)
                /\ notes' = w.notes
                /\ stats' = w.stats
       ELSE /\ key_hold_times' = SetEntry(key_hold_times, lane, current_time)
            /\ UNCHANGED <<held, notes, stats>>
    /\ UNCHANGED <<current_time, running, pc>>

\* The end of the input loop with a quit that leaves the frame at once.
EndInput_quit_leaves(quit) ==
    /\ pc = "input"
    /\ running' = (running /\ ~quit)
    /\ LET r == auto_release(Now, held, key_hold_times, current_time)
       IN  IF quit
           THEN /\ pc' = "results"
                /\ UNCHANGED <<notes, stats, held, key_hold_times>>
           ELSE /\ notes' = r.world.notes
                /\ stats' = r.world.stats
                /\ held' = r.held
                /\ key_hold_times' = r.key_hold_times
                /\ pc' = "sweep"
    /\ UNCHANGED current_time

\* The input loop is left (by `running = quit`: 'q' read, or getch() = -1) and
\* the keys that haven't been pressed recently are auto-released.
EndInput(quit) ==
    /\ pc = "input"
    /\ running' = (running /\ ~quit)
    /\ LET r == auto_release(Now, held, key_hold_times, current_time)
       IN  /\ notes' = r.world.notes
           /\ stats' = r.world.stats
           /\ held' = r.held
           /\ key_hold_times' = r.key_hold_times
    /\ pc' = "sweep"
    /\ UNCHANGED current_time

\* check_missed_notes(notes, current_time, stats, effects)
CheckMissed ==
    /\ pc = "sweep"
    /\ LET w == check_missed_notes(Now, current_time)
       IN  /\ notes' = w.notes
           /\ stats' = w.stats
    /\ pc' = "frame"
    /\ UNCHANGED <<held, key_hold_times, current_time, running>>

\* The frame is drawn; all_judged or a quit ends the loop.
EndGame ==
    /\ pc = "frame"
    /\ all_judged_of(notes) \/ ~running
    /\ pc' = "results"
    /\ UNCHANGED <<notes, stats, held, key_hold_times, current_time, running>>

\* The frame is drawn and the next iteration of `while running` reads the clock.
NextFrame ==
    /\ pc = "frame"
    /\ ~all_judged_of(notes) /\ running
    /\ \E t \in FrameTimes(notes) :
        /\ t >= current_time + FrameMs
        /\ current_time' = t
    /\ pc' = "input"
    /\ UNCHANGED <<notes, stats, held, key_hold_times, running>>

\* The same, once the clock has reached the horizon, for a frame that comes
\* more than release_timeout after the last one: the clock is kept at MaxTime
\* and the timestamps move back instead (every comparison of the program is
\* on a difference of times).
LateFrame ==
    /\ pc = "frame"
    /\ ~all_judged_of(notes) /\ running
    /\ current_time = MaxTime
    /\ key_hold_times' =
         [k \in 1..Len(key_hold_times) |->
            [key_hold_times[k] EXCEPT !.t = MaxTime - release_timeout - 1]]
    /\ pc' = "input"
    /\ UNCHANGED <<notes, stats, held, current_time, running>>

Next ==
    \/ \E lane \in Lanes : KeyLane(lane)
    \/ \E quit \in BOOLEAN : EndInput(quit)
    \/ CheckMissed
    \/ EndGame
    \/ NextFrame
    \/ LateFrame

Spec == Init /\ [][Next]_vars

\* The frame loop never blocks: getch() has a 1 ms timeout and every frame
\* ends in a bounded sleep, so a step that can be taken is taken.
LiveSpec == Init /\ [][Next]_vars /\ WF_vars(Next)

(* ------------------- update_stats on its own: StatsSpec ----------------- *)
\* The members of the enum Judgment.
Judgments == {"PERFECT", "GREAT", "GOOD", "BAD", "MISS"}

\* A fresh Stats() and no chart.
StatsInit ==
    /\ notes = <<>>
    /\ stats = Stats0
    /\ held = [lane \in Lanes |-> FALSE]
    /\ key_hold_times = <<>>
    /\ current_time = 0
    /\ running = TRUE
    /\ pc = "stats"

\* update_stats(stats, judgment)
ApplyJudgment(judgment) ==
    /\ pc = "stats"
    /\ stats.total_notes < MaxJudgments
    /\ stats' = update_stats(stats, judgment)
    /\ UNCHANGED <<notes, held, key_hold_times, current_time, running, pc>>

StatsNext == \E judgment \in Judgments : ApplyJudgment(judgment)

StatsSpec == StatsInit /\ [][StatsNext]_vars

(* ---------------- calculate_judgment on its own: JudgeSpec --------------- *)
\* One note at MaxDelta and a press at any time from 0 to 2 * MaxDelta: every
\* delta from -MaxDelta to MaxDelta.
JudgeInit ==
    /\ notes = <<Note(MaxDelta, 1, "normal", None)>>
    /\ stats = Stats0
    /\ held = [lane \in Lanes |-> FALSE]
    /\ key_hold_times = <<>>
    /\ current_time \in 0..(2 * MaxDelta)
    /\ running = TRUE
    /\ pc = "judge"

\* handle_note_hit(note, current_time, stats, effects) on the note:
\* calculate_judgment(current_time - note.time), then update_stats.
Judge ==
    /\ pc = "judge"
    /\ LET w == handle_note_hit(Now, 1, current_time)
       IN  /\ notes' = w.notes
           /\ stats' = w.stats
    /\ pc' = "judged"
    /\ UNCHANGED <<held, key_hold_times, current_time, running>>

JudgeNext == Judge

JudgeSpec == JudgeInit /\ [][JudgeNext]_vars

(* ------------------------------ properties ----------------------------- *)
Idx == DOMAIN notes

IsHold(i) == notes[i].kind = "hold"

\* The notes whose head, and the holds whose release, a step judges.
NewHeads == {i \in Idx : ~notes[i].judged /\ notes'[i].judged}

NewReleases == {i \in Idx : ~notes[i].hold_judged /\ notes'[i].hold_judged}

\* A step in which a key of `lane` is read while the lane is not held.
Press(lane) == pc = "input" /\ ~held[lane] /\ held'[lane]

\* The unjudged notes of a lane within the outer window of time t.
Candidates(lane, t) ==
    {i \in Idx : notes[i].lane = lane /\ ~notes[i].judged
                 /\ Abs(t - notes[i].time) <= HIT_WINDOW_MISS}

\* Those of them closest to t, the earlier scheduled first.
Closest(lane, t) ==
    {i \in Candidates(lane, t) :
        \A j \in Candidates(lane, t) :
            \/ Abs(t - notes[i].time) < Abs(t - notes[j].time)
            \/ /\ Abs(t - notes[i].time) = Abs(t - notes[j].time)
               /\ notes[i].time <= notes[j].time}

\* C1: a judged head stays judged with the same hit flag, a judged release
\* stays judged and inactive, and a step reports no more judgments to Stats
\* than the heads and releases it newly judges: no head and no release is
\* judged twice.
C1_JudgedAtMostOnce ==
    [][/\ \A i \in Idx :
            notes[i].judged => notes'[i].judged /\ notes'[i].hit = notes[i].hit
       /\ \A i \in Idx :
            notes[i].hold_judged => notes'[i].hold_judged /\ ~notes'[i].hold_active
       /\ stats'.total_notes - stats.total_notes
            <= Cardinality(NewHeads) + Cardinality(NewReleases)]_vars

\* A lone note was judged Bad by a press, its lane was released, and a new
\* press of the lane falls in the note's window again, at another tier.
C1_Witness ==
    /\ pc = "input"
    /\ Len(notes) = 1
    /\ notes[1].judged /\ notes[1].hit
    /\ stats.total_notes = 1 /\ stats.bad = 1
    /\ held[notes[1].lane]
    /\ EntryTime(key_hold_times, notes[1].lane) = current_time
    /\ calculate_judgment(current_time - notes[1].time) \notin {"BAD", "MISS"}

\* C2: Stats has counted exactly one judgment for every judged head and one
\* for every judged release.
C2_StatsCountsEveryJudgment ==
    stats.total_notes =
        Cardinality({i \in Idx : notes[i].judged})
        + Cardinality({i \in Idx : IsHold(i) /\ notes[i].hold_judged})

\* C3: unless a quit is read, the all-judged predicate eventually holds.
C3_SessionEnds == <>(all_judged_of(notes) \/ ~running)

\* C4: a release is judged only after a hit head; an active hold is a hold
\* with a hit head and no release judgment; a normal note is never active
\* and never release-judged.
C4_HoldStates ==
    \A i \in Idx :
        /\ notes[i].hold_judged => IsHold(i) /\ notes[i].judged /\ notes[i].hit
        /\ notes[i].hold_active =>
              IsHold(i) /\ notes[i].judged /\ notes[i].hit /\ ~notes[i].hold_judged
        /\ ~IsHold(i) => ~notes[i].hold_active /\ ~notes[i].hold_judged

\* A hold whose head was hit and whose release was judged, beside a normal
\* note that was hit.
C4_Witness ==
    /\ \E i \in Idx : IsHold(i) /\ notes[i].hit /\ notes[i].hold_judged
    /\ \E i \in Idx : ~IsHold(i) /\ notes[i].hit

\* C5: a press of a lane with a candidate note judges one of the closest
\* candidates, the earlier scheduled on a tie, and changes no other note.
C5_PressJudgesClosest ==
    [][\A lane \in Lanes :
          Press(lane) /\ Candidates(lane, current_time) # {} =>
              \E i \in Closest(lane, current_time) :
                  /\ notes'[i].judged
                  /\ \A j \in Idx \ {i} : notes'[j] = notes[j]]_vars

\* Two notes of a lane equally far from the press just read: the earlier is
\* judged, the later is not.
C5_Witness ==
    /\ pc = "input"
    /\ \E i, j \in Idx :
        /\ notes[i].lane = notes[j].lane
        /\ notes[i].time < notes[j].time
        /\ Abs(current_time - notes[i].time) = Abs(current_time - notes[j].time)
        /\ held[notes[i].lane]
        /\ EntryTime(key_hold_times, notes[i].lane) = current_time
        /\ notes[i].judged /\ notes[i].hit /\ ~notes[j].judged
        /\ stats.total_notes = 1

\* C6: a press of a lane with no candidate note changes neither Stats nor
\* any note, nor another lane's held flag or last-seen time.
C6_GhostPress ==
    [][\A lane \in Lanes :
          Press(lane) /\ Candidates(lane, current_time) = {} =>
              /\ stats' = stats
              /\ notes' = notes
              /\ \A l \in Lanes \ {lane} :
                    /\ held'[l] = held[l]
                    /\ HasEntry(key_hold_times', l) = HasEntry(key_hold_times, l)
                    /\ HasEntry(key_hold_times, l) =>
                          EntryTime(key_hold_times', l) = EntryTime(key_hold_times, l)
              /\ EntryTime(key_hold_times', lane) = current_time]_vars

\* A lane was pressed 128 ms after its only, unjudged, note and nothing was
\* judged.
C6_Witness ==
    /\ pc = "input"
    /\ stats = Stats0
    /\ \E i \in Idx :
        /\ ~notes[i].judged
        /\ current_time - notes[i].time = HIT_WINDOW_MISS + 1
        /\ held[notes[i].lane]
        /\ EntryTime(key_hold_times, notes[i].lane) = current_time

\* The tier a release at time t of hold i is to record.
ReleaseTier(i, t) ==
    IF Abs(t - notes[i].end_time) <= HOLD_RELEASE_WINDOW
    THEN calculate_judgment(t - notes[i].end_time)
    ELSE "MISS"

\* C7: a step that releases one active hold, and judges nothing else,
\* records the tier of its delta from end_time: never Miss within the
\* release window, and Miss (score unchanged, combo 0) outside it; the hold
\* ends release-judged and inactive.
C7_ReleaseJudgment ==
    [][\A i \in Idx :
          notes[i].hold_active /\ NewReleases = {i} /\ NewHeads = {} =>
              /\ stats' = update_stats(stats, ReleaseTier(i, current_time))
              /\ Abs(current_time - notes[i].end_time) <= HOLD_RELEASE_WINDOW =>
                    stats'.miss = stats.miss /\ stats'.combo = stats.combo + 1
              /\ Abs(current_time - notes[i].end_time) > HOLD_RELEASE_WINDOW =>
                    /\ stats'.miss = stats.miss + 1
                    /\ stats'.score = stats.score
                    /\ stats'.combo = 0
              /\ notes'[i].hold_judged /\ ~notes'[i].hold_active]_vars

\* The heads and the releases the sweep at time t is to judge.
SweptHeads(t) == {i \in Idx : ~notes[i].judged /\ t - notes[i].time > HIT_WINDOW_MISS}

\* C8: the sweep judges exactly the unjudged notes more than 127 ms late,
\* each a Miss with hit = false, and reports one Miss for each (and one for
\* each hold it releases); after it no such note is unjudged.
C8_SweepMisses ==
    [][pc = "sweep" =>
          /\ NewHeads = SweptHeads(current_time)
          /\ \A i \in NewHeads : ~notes'[i].hit
          /\ \A i \in Idx :
                current_time - notes[i].time > HIT_WINDOW_MISS => notes'[i].judged
          /\ stats'.miss = stats.miss + Cardinality(NewHeads) + Cardinality(NewReleases)
          /\ stats'.total_notes = stats.total_notes
                                    + Cardinality(NewHeads) + Cardinality(NewReleases)
          /\ stats'.score = stats.score]_vars

\* The sweep of the frame at note.time + 128 has judged the note a Miss.
C8_Witness ==
    /\ pc = "frame"
    /\ \E i \in Idx :
        /\ current_time - notes[i].time = HIT_WINDOW_MISS + 1
        /\ notes[i].judged /\ ~notes[i].hit
        /\ stats.miss = 1 /\ stats.total_notes = 1

\* C9: after the sweep of a frame no hold is active more than 100 ms past
\* its end_time.
C9_NoExpiredActiveHold ==
    pc = "frame" =>
        \A i \in Idx :
            ~(IsHold(i) /\ notes[i].hold_active
              /\ current_time - notes[i].end_time > HOLD_RELEASE_WINDOW)

\* C10: a second sweep at the same time changes nothing: after a sweep,
\* sweeping again leaves the notes and the stats as they are.
C10_SweepIdempotent ==
    LET once == check_missed_notes(Now, current_time)
    IN  /\ check_missed_notes(once, current_time) = once
        /\ pc = "frame" => once = Now

\* The sweep has just released a hold whose lane is still held, and judged
\* a head a Miss.
C10_Witness ==
    /\ pc = "frame"
    /\ \E i \in Idx :
        /\ IsHold(i) /\ notes[i].hold_judged /\ held[notes[i].lane]
        /\ current_time - notes[i].end_time = HOLD_RELEASE_WINDOW + 1
    /\ \E j \in Idx : notes[j].judged /\ ~notes[j].hit

\* A step that reads a key code: the input loop goes on.
KeyStep == pc = "input" /\ pc' = "input"

\* C11: a key code changes a note only if the note's lane was not held and
\* becomes held (a press); a key code that makes no lane held, the code of
\* a lane already held, changes neither a note nor Stats nor a held flag:
\* while a lane is held no key code judges a head of it.
C11_HeldKeyOnlyRefreshes ==
    [][KeyStep =>
          /\ \A i \in Idx :
                notes'[i] # notes[i] =>
                    ~held[notes[i].lane] /\ held'[notes[i].lane]
          /\ (\A l \in Lanes : held'[l] = held[l]) =>
                notes' = notes /\ stats' = stats]_vars

\* The key code of a held lane was read in a frame in which an unjudged
\* note of the lane is within the outer window, and no note of the lane
\* was judged.
C11_Witness ==
    /\ pc = "input"
    /\ stats = Stats0
    /\ \E i \in Idx :
        /\ held[notes[i].lane]
        /\ EntryTime(key_hold_times, notes[i].lane) = current_time
        /\ Abs(current_time - notes[i].time) <= HIT_WINDOW_MISS
        /\ \A j \in Idx : notes[j].lane = notes[i].lane => ~notes[j].judged

\* The step that leaves the input loop and runs the auto-release pass.
ReleasePass == pc = "input" /\ pc' = "sweep"

\* The lane's last key code is more than release_timeout old.
Stale(lane) ==
    /\ HasEntry(key_hold_times, lane)
    /\ current_time - EntryTime(key_hold_times, lane) > release_timeout

\* C12: a held lane becomes unheld only in the auto-release pass, and there
\* exactly when its last key code is more than 100 ms old; the pass then
\* releases every active hold of the lane and touches no other hold, and a
\* single release of a hold with an end_time reports the tier of the
\* frame's time.
C12_TimeoutRelease ==
    [][/\ \A lane \in Lanes : held[lane] /\ ~held'[lane] => ReleasePass
       /\ ReleasePass =>
            /\ \A lane \in Lanes : held'[lane] = (held[lane] /\ ~Stale(lane))
            /\ \A i \in Idx :
                  IF notes[i].hold_active /\ held[notes[i].lane] /\ Stale(notes[i].lane)
                  THEN notes'[i].hold_judged /\ ~notes'[i].hold_active
                  ELSE notes'[i] = notes[i]
            /\ \A i \in Idx :
                  NewReleases = {i} /\ Truthy(notes[i].end_time) =>
                      stats' = update_stats(stats, ReleaseTier(i, current_time))]_vars

\* A lone hold was released by the timeout inside its release window: the
\* release was not a Miss, and the lane is unheld.
C12_Witness ==
    /\ pc = "sweep"
    /\ Len(notes) = 1
    /\ notes[1].hold_judged
    /\ ~held[notes[1].lane]
    /\ Abs(current_time - notes[1].end_time) <= HOLD_RELEASE_WINDOW
    /\ stats.total_notes = 2 /\ stats.miss = 0

\* Every note is judged and every hold is hold_judged.
AllTerminal ==
    \A i \in Idx : notes[i].judged /\ (IsHold(i) => notes[i].hold_judged)

\* C13: the sweep of a frame is followed, at the same time, by the test that
\* ends the session; the session ends at that test exactly when every note
\* is judged and every hold hold_judged (or the player quit), in the frame
\* of the last judgment and not in a later one, and it ends nowhere else.
C13_EndOfSession ==
    [][/\ pc = "sweep" => pc' = "frame" /\ current_time' = current_time
       /\ pc = "frame" =>
            /\ (pc' = "results") = (AllTerminal \/ ~running)
            /\ notes' = notes /\ stats' = stats
            /\ pc' = "results" => current_time' = current_time
       /\ pc' = "results" => pc = "frame"]_vars

\* The session ended, without a quit, in the frame in which the press of
\* the only note of the chart was read.
C13_Witness ==
    /\ pc = "results"
    /\ running
    /\ Len(notes) = 1
    /\ notes[1].kind = "normal"
    /\ notes[1].hit
    /\ current_time - notes[1].time = 2
    /\ EntryTime(key_hold_times, notes[1].lane) = current_time

\* The counter of a tier in a Stats.
Counter(s, j) ==
    CASE j = "PERFECT" -> s.perfect
      [] j = "GREAT" -> s.great
      [] j = "GOOD" -> s.good
      [] j = "BAD" -> s.bad
      [] j = "MISS" -> s.miss

\* The step counts one judgment, of tier j: the counter of j grows by one
\* and no other counter changes.
Counted(j) ==
    /\ Counter(stats', j) = Counter(stats, j) + 1
    /\ \A k \in Judgments \ {j} : Counter(stats', k) = Counter(stats, k)

\* The points of a tier, as the specification lists them.
Points(j) ==
    CASE j = "PERFECT" -> 320
      [] j = "GREAT" -> 300
      [] j = "GOOD" -> 200
      [] j = "BAD" -> 100
      [] j = "MISS" -> 0

\* C14: every update of Stats with a Miss sets combo to 0 and every other
\* update adds 1 to it; max_combo becomes the maximum of its old value and
\* the new combo, never decreases, and is never below combo.
C14_ComboAndMaxCombo ==
    [][pc = "stats" =>
          \E j \in Judgments :
              /\ Counted(j)
              /\ stats'.combo = IF j = "MISS" THEN 0 ELSE stats.combo + 1
              /\ stats'.max_combo = Max(stats.max_combo, stats'.combo)
              /\ stats'.max_combo >= stats.max_combo
              /\ stats.combo <= stats.max_combo
              /\ stats'.combo <= stats'.max_combo]_vars

\* Two judgments that are not a Miss, then a Miss: combo is back at 0 and
\* max_combo keeps the 2.
C14_Witness ==
    /\ pc = "stats"
    /\ stats.total_notes = 3
    /\ stats.miss = 1
    /\ stats.combo = 0
    /\ stats.max_combo = 2

\* C15: every update of Stats adds 1 to total_notes and to exactly one tier
\* counter, and the points of that tier (320, 300, 200, 100, 0) to score; no
\* counter and no score ever decreases.
C15_ScoreAndCounters ==
    [][pc = "stats" =>
          /\ \E j \in Judgments :
                /\ Counted(j)
                /\ stats'.score = stats.score + Points(j)
          /\ stats'.total_notes = stats.total_notes + 1
          /\ stats'.score >= stats.score
          /\ \A k \in Judgments : Counter(stats', k) >= Counter(stats, k)]_vars

\* One judgment of each tier: 320 + 300 + 200 + 100 + 0 points.
C15_Witness ==
    /\ pc = "stats"
    /\ \A k \in Judgments : Counter(stats, k) = 1
    /\ stats.total_notes = 5
    /\ stats.score = 920

\* The tier of a distance from the note's time, as the specification lists
\* the windows.
TierOf(d) ==
    IF d <= 16 THEN "PERFECT"
    ELSE IF d <= 40 THEN "GREAT"
    ELSE IF d <= 73 THEN "GOOD"
    ELSE IF d <= 103 THEN "BAD"
    ELSE "MISS"

\* C16: the judgment of a delta is the tier of |delta|: Perfect up to 16,
\* Great up to 40, Good up to 73, Bad up to 103, Miss beyond; a delta and its
\* opposite get the same judgment, and the judged note scores the points of
\* the tier (delta 50: Good, 200 points).
C16_JudgmentTable ==
    LET delta == current_time - notes[1].time IN
    /\ pc \in {"judge", "judged"} =>
          /\ calculate_judgment(delta) = TierOf(Abs(delta))
          /\ calculate_judgment(delta) = calculate_judgment(-delta)
    /\ pc = "judged" =>
          /\ Counter(stats, TierOf(Abs(delta))) = 1
          /\ stats.total_notes = 1
          /\ stats.score = Points(TierOf(Abs(delta)))
          /\ notes[1].judged
          /\ notes[1].hit = (Abs(delta) <= 103)

\* The note was pressed 50 ms late: one Good, 200 points, combo 1.
C16_Witness ==
    /\ pc = "judged"
    /\ current_time - notes[1].time = 50
    /\ stats.good = 1
    /\ stats.score = 200
    /\ stats.combo = 1

\* C17: a quit is read in the input loop only, and the frame goes on from
\* there at the same time: the auto-release pass runs in the step of the
\* quit, then the sweep judges every unjudged note past its window, then
\* the test of the end is made and the session ends; the clock is not read
\* again, no key is read again, and nothing changes after the test.
C17_QuitCompletesFrame ==
    [][/\ running /\ ~running' =>
            /\ ReleasePass
            /\ current_time' = current_time
            /\ \A lane \in Lanes : held'[lane] = (held[lane] /\ ~Stale(lane))
            /\ \A i \in Idx :
                  notes[i].hold_active /\ Stale(notes[i].lane) =>
                      notes'[i].hold_judged
       /\ ~running =>
            /\ ~running'
            /\ current_time' = current_time
            /\ pc = "sweep" =>
                  /\ pc' = "frame"
                  /\ \A i \in SweptHeads(current_time) : notes'[i].judged
            /\ pc = "frame" =>
                  pc' = "results" /\ notes' = notes /\ stats' = stats
            /\ pc \notin {"sweep", "frame"} => UNCHANGED vars]_vars

\* The session ended by a quit read in the frame in which the lone hold's
\* lane timed out: the release was judged in that frame, not a Miss.
C17_Witness ==
    /\ pc = "results"
    /\ ~running
    /\ Len(notes) = 1
    /\ notes[1].hold_judged
    /\ ~held[notes[1].lane]
    /\ Truthy(notes[1].end_time)
    /\ Abs(current_time - notes[1].end_time) <= HOLD_RELEASE_WINDOW
    /\ stats.total_notes = 2 /\ stats.miss = 0

\* C18: a press whose closest candidate is more than 103 ms (and at most
\* 127 ms) from the press judges that note a Miss: the note is judged with
\* hit = false, a hold stays inactive and unreleased, no other note changes,
\* and Stats gets one Miss, no points and combo 0.
C18_PressInMissBand ==
    [][\A lane \in Lanes :
          /\ Press(lane)
          /\ \E i \in Closest(lane, current_time) :
                Abs(current_time - notes[i].time) > 103
          => /\ \E i \in Closest(lane, current_time) :
                   /\ ~notes[i].judged /\ notes'[i].judged
                   /\ ~notes'[i].hit
                   /\ ~notes'[i].hold_active /\ ~notes'[i].hold_judged
                   /\ \A j \in Idx \ {i} : notes'[j] = notes[j]
             /\ stats'.miss = stats.miss + 1
             /\ stats'.total_notes = stats.total_notes + 1
             /\ stats'.score = stats.score
             /\ stats'.combo = 0]_vars

\* A hold was pressed 104 ms from its head, by the press just read: the
\* head is a Miss and the hold is not active.
C18_Witness ==
    /\ pc = "input"
    /\ \E i \in Idx :
        /\ IsHold(i)
        /\ Abs(current_time - notes[i].time) = 104
        /\ held[notes[i].lane]
        /\ EntryTime(key_hold_times, notes[i].lane) = current_time
        /\ notes[i].judged /\ ~notes[i].hit /\ ~notes[i].hold_active
        /\ stats.total_notes = 1 /\ stats.miss = 1

\* C19: an active hold whose lane's last key code was read at or after the
\* hold's end_time is released with a Miss: the step that releases it, and
\* judges nothing else, counts one Miss in Stats and no other tier.
C19_LateKeyReleaseIsMiss ==
    [][\A i \in Idx :
          /\ notes[i].hold_active
          /\ NewReleases = {i} /\ NewHeads = {}
          /\ HasEntry(key_hold_times, notes[i].lane)
          /\ EntryTime(key_hold_times, notes[i].lane) >= notes[i].end_time
          => Counted("MISS")]_vars

\* C20: within a frame the keys come before the auto-release pass and the
\* pass before the sweep.  A key code stamps its lane with the frame's time,
\* and the pass of the same frame leaves a lane with that stamp held and its
\* holds untouched; the pass judges releases only, and every active hold of
\* a lane it times out is released by it, so that the sweep that follows
\* finds no active hold on an unheld lane and releases only holds of lanes
\* still held.
C20_KeysThenReleaseThenSweep ==
    [][/\ KeyStep =>
            \A lane \in Lanes :
                HasEntry(key_hold_times', lane)
                /\ (~HasEntry(key_hold_times, lane)
                    \/ EntryTime(key_hold_times', lane) # EntryTime(key_hold_times, lane))
                => EntryTime(key_hold_times', lane) = current_time
       /\ ReleasePass =>
            /\ \A lane \in Lanes :
                  held[lane] /\ EntryTime(key_hold_times, lane) = current_time =>
                      /\ held'[lane]
                      /\ \A i \in Idx : notes[i].lane = lane => notes'[i] = notes[i]
            /\ NewHeads = {}
            /\ \A i \in Idx :
                  notes[i].hold_active /\ ~held'[notes[i].lane] => notes'[i].hold_judged
       /\ pc = "sweep" =>
            /\ \A i \in Idx : notes[i].hold_active => held[notes[i].lane]
            /\ \A i \in NewReleases : held[notes[i].lane]]_vars

\* After the auto-release pass of a frame: a lane whose key was read in this
\* frame, long after the head of its hold, is still held and the hold still
\* active, while the hold of another lane has been released.
C20_Witness ==
    /\ pc = "sweep"
    /\ \E i, j \in Idx :
        /\ notes[i].hold_active
        /\ current_time - notes[i].time > HIT_WINDOW_MISS + release_timeout
        /\ held[notes[i].lane]
        /\ EntryTime(key_hold_times, notes[i].lane) = current_time
        /\ notes[j].lane # notes[i].lane
        /\ notes[j].hold_judged
        /\ ~held[notes[j].lane]

\* C21: in every state, and so at the end of every frame, no lane has two
\* holds with hold_active, and the lane of a hold with hold_active is held.
C21_OneActiveHoldPerHeldLane ==
    /\ \A i, j \in Idx :
          /\ notes[i].hold_active /\ notes[j].hold_active
          /\ notes[i].lane = notes[j].lane
          => i = j
    /\ \A i \in Idx : notes[i].hold_active => held[notes[i].lane]

\* At the end of a frame: a lane with two holds, one active on the held
\* lane, the other hit and released before.
C21_Witness ==
    /\ pc = "frame"
    /\ \E i, j \in Idx :
        /\ i # j
        /\ IsHold(i) /\ IsHold(j)
        /\ notes[i].lane = notes[j].lane
        /\ notes[i].hold_active
        /\ held[notes[i].lane]
        /\ notes[j].hit /\ notes[j].hold_judged

\* C22: in every state score = 320 perfect + 300 great + 200 good + 100 bad,
\* total_notes is the sum of the five counters and max_combo is at most
\* total_notes - miss; so the numerator of the accuracy is score (times the
\* 100 of the percentage), score lies from 0 to 320 total_notes, the
\* accuracy from 0 to 100, and it is 100 when nothing has been judged.
C22_StatsArithmetic ==
    LET acc == accuracy(stats) IN
    /\ stats.score = 320 * stats.perfect + 300 * stats.great
                     + 200 * stats.good + 100 * stats.bad
    /\ stats.total_notes = stats.perfect + stats.great + stats.good
                           + stats.bad + stats.miss
    /\ stats.max_combo <= stats.total_notes - stats.miss
    /\ 0 <= stats.score /\ stats.score <= 320 * stats.total_notes
    /\ acc[2] > 0
    /\ 0 <= acc[1] /\ acc[1] <= 100 * acc[2]
    /\ stats.total_notes > 0 =>
          acc[1] = 100 * stats.score /\ acc[2] = 320 * stats.total_notes
    /\ stats.total_notes = 0 => acc[1] = 100 * acc[2]

\* A Perfect, a Good and a Miss: 520 points of 960, and a max_combo of at
\* most 2.
C22_Witness ==
    /\ pc = "stats"
    /\ stats.total_notes = 3
    /\ stats.perfect = 1 /\ stats.good = 1 /\ stats.miss = 1
    /\ accuracy(stats) = <<52000, 960>>

\* The step leaves the held flag and the last-seen time of a lane as they are.
LaneKept(lane) ==
    /\ held'[lane] = held[lane]
    /\ HasEntry(key_hold_times', lane) = HasEntry(key_hold_times, lane)
    /\ HasEntry(key_hold_times, lane) =>
          EntryTime(key_hold_times', lane) = EntryTime(key_hold_times, lane)

\* The step leaves every note of a lane as it is.
NotesKept(lane) ==
    \A i \in Idx : notes[i].lane = lane => notes'[i] = notes[i]

\* C23: no step changes the chart's length or a note's time, lane, kind or
\* end_time.  A step that reads a key changes notes, the held flag and the
\* last-seen time of one lane only, and the auto-release pass changes them
\* only for the lanes it releases (held before, unheld after).
C23_LanesIndependent ==
    [][/\ DOMAIN notes' = DOMAIN notes
       /\ \A i \in Idx :
            /\ notes'[i].time = notes[i].time
            /\ notes'[i].lane = notes[i].lane
            /\ notes'[i].kind = notes[i].kind
            /\ notes'[i].end_time = notes[i].end_time
       /\ KeyStep =>
            \E lane \in Lanes :
                \A l \in Lanes \ {lane} : LaneKept(l) /\ NotesKept(l)
       /\ \A lane \in Lanes :
            Press(lane) => \A l \in Lanes \ {lane} : LaneKept(l) /\ NotesKept(l)
       /\ ReleasePass =>
            \A l \in Lanes :
                ~(held[l] /\ ~held'[l]) => LaneKept(l) /\ NotesKept(l)]_vars

\* Two notes of the same time in two lanes: the press just read judged the
\* one of its lane, and the other lane is neither held nor its note judged.
C23_Witness ==
    /\ pc = "input"
    /\ \E i, j \in Idx :
        /\ notes[i].lane # notes[j].lane
        /\ notes[i].time = notes[j].time
        /\ notes[i].judged /\ notes[i].hit
        /\ held[notes[i].lane]
        /\ EntryTime(key_hold_times, notes[i].lane) = current_time
        /\ ~notes[j].judged
        /\ ~held[notes[j].lane]
        /\ ~HasEntry(key_hold_times, notes[j].lane)

\* C24: once the auto-release pass of a frame has run, a lane is held
\* exactly when key_hold_times has an entry for it, and no entry is more
\* than 100 ms older than the frame's time.
C24_HeldIffFreshEntry ==
    pc \in {"sweep", "frame", "results"} =>
        \A lane \in Lanes :
            /\ held[lane] = HasEntry(key_hold_times, lane)
            /\ HasEntry(key_hold_times, lane) =>
                  current_time - EntryTime(key_hold_times, lane) <= 100

\* After the pass of a frame: one lane kept held by an entry exactly 100 ms
\* old, another one, whose hold was hit, released and without an entry.
C24_Witness ==
    /\ pc = "sweep"
    /\ \E l1, l2 \in Lanes :
        /\ held[l1]
        /\ HasEntry(key_hold_times, l1)
        /\ current_time - EntryTime(key_hold_times, l1) = 100
        /\ ~held[l2]
        /\ ~HasEntry(key_hold_times, l2)
        /\ \E i \in Idx : notes[i].lane = l2 /\ notes[i].hit /\ notes[i].hold_judged

====
